---- MODULE Spec2Model ----
(***************************************************************************)
(* Booking admission and approval workflow of the Telegram scheduling bot  *)
(* (src/main.py): bookings, booking_files and admin_messages tables, the   *)
(* in-memory pending_rejections map, the per-user conversation, and the    *)
(* handlers registered in main().  Updates are handled one at a time       *)
(* (Application is built without concurrent_updates), so one action is one *)
(* whole handler run.  Callback queries pressed on an inline keyboard stay *)
(* in flight until the bot handles them.  A day is its proleptic ordinal;  *)
(* the date keyboards sent to a requester stay pressable until the bot     *)
(* edits their message.                                                    *)
(***************************************************************************)
EXTENDS Bags, FiniteSets, Integers, Sequences, TLC

\* ---------------------------------------------------------------- bounds
MaxNewBookings == 2
MaxPresses == 2
MaxDates == 1
MaxSessions == 1
MaxFaults == 1

\* ------------------------------------------------------------- constants
PerDayCapacity == 10
ADMIN_IDS == <<1, 2>>
Admins == {ADMIN_IDS[i] : i \in DOMAIN ADMIN_IDS}
Requesters == {2, 3}
FileInputs == {"f1", "f2"}
Texts == {<<" ">>, <<"X", " ">>, <<"1">>}
CountTexts == Texts \cup {<<"2">>}
SeedCount == PerDayCapacity - 1

None == 0
NoText == <<>>
END == "END"
ASK_FILE_COUNT == "ASK_FILE_COUNT"
ASK_DATE == "ASK_DATE"
ASK_DOC == "ASK_DOC"
Terminal == {"APPROVED", "REJECTED"}

VARIABLES
  bookings,            \* bookings table: row id = index
  booking_files,       \* booking_files table, in insertion order
  admin_messages,      \* admin_messages table (the approval ledger)
  pending_rejections,  \* admin id -> booking id awaiting a reason (None: absent)
  conv,                \* ConversationHandler state per user
  user_data,           \* context.user_data per user
  keyboards,           \* <<admin, booking>>: Approve/Reject keyboard still shown
  inflight,            \* bag of callback queries pressed and not yet handled
  presses,             \* number of keyboard presses so far
  faults,              \* number of Telegram API calls that raised so far
  outbox,              \* bot.send_message calls of the last handler, in order
  last,                \* the update handled last and what the handler did
  today,               \* datetime.utcnow().date(), as a proleptic ordinal
  date_keyboards,      \* <<user, dates>>: date keyboard still shown to the user
  offered              \* history: the dates offered in the user's latest session

vars == <<bookings, booking_files, admin_messages, pending_rejections, conv,
          user_data, keyboards, inflight, presses, faults, outbox, last,
          today, date_keyboards, offered>>

\* --------------------------------------------------------- text handling
IsSpace(c) == c = " "

RECURSIVE lstrip(_)
lstrip(s) == IF s # <<>> /\ IsSpace(Head(s)) THEN lstrip(Tail(s)) ELSE s

RECURSIVE rstrip(_)
rstrip(s) ==
  IF s # <<>> /\ IsSpace(s[Len(s)]) THEN rstrip(SubSeq(s, 1, Len(s) - 1)) ELSE s

strip_nothing(s) == s

strip(s) == rstrip(lstrip(s))

DigitValue(c) ==
  CASE c = "0" -> 0 [] c = "1" -> 1 [] c = "2" -> 2 [] c = "3" -> 3
    [] c = "4" -> 4 [] c = "5" -> 5 [] c = "6" -> 6 [] c = "7" -> 7
    [] c = "8" -> 8 [] c = "9" -> 9 [] OTHER -> -1

RECURSIVE int(_)
\* int(text): the value, or -1 for the ValueError cases
int(s) ==
  IF s = <<>> THEN -1
  ELSE IF DigitValue(s[Len(s)]) < 0 THEN -1
  ELSE IF Len(s) = 1 THEN DigitValue(s[1])
  ELSE LET hi == int(SubSeq(s, 1, Len(s) - 1))
       IN IF hi < 0 THEN -1 ELSE 10 * hi + DigitValue(s[Len(s)])

\* ------------------------------------------------------ database helpers
create_booking(bk, user_id, date_str) ==
  Append(bk, [user_id |-> user_id, date |-> date_str, status |-> "PENDING"])

add_booking_file(bf, booking_id, file) ==
  Append(bf, [booking_id |-> booking_id, file_id |-> file])

RECURSIVE add_booking_files_reversed(_, _, _)
add_booking_files_reversed(bf, booking_id, files) ==
  IF files = <<>> THEN bf
  ELSE add_booking_files_reversed(
         add_booking_file(bf, booking_id, files[Len(files)]),
         booking_id, SubSeq(files, 1, Len(files) - 1))

RECURSIVE add_booking_files(_, _, _)
add_booking_files(bf, booking_id, files) ==
  IF files = <<>> THEN bf
  ELSE add_booking_files(add_booking_file(bf, booking_id, Head(files)),
                         booking_id, Tail(files))

get_booking_files(bf, booking_id) ==
  SelectSeq(bf, LAMBDA r : r.booking_id = booking_id)

save_admin_message_dropped(am, booking_id, admin_id, message_id) == am

save_admin_message(am, booking_id, admin_id, message_id) ==
  am \cup {[booking_id |-> booking_id, admin_id |-> admin_id,
            message_id |-> message_id]}

get_admin_messages(am, booking_id) == {r \in am : r.booking_id = booking_id}

clear_admin_messages_kept(am, booking_id) == am

clear_admin_messages(am, booking_id) == {r \in am : r.booking_id # booking_id}

set_booking_status_lost(bk, booking_id, status) == bk

set_booking_status(bk, booking_id, status) ==
  [bk EXCEPT ![booking_id].status = status]

count_approved_for_date(bk, date_str) ==
  Cardinality({i \in DOMAIN bk :
                 bk[i].date = date_str /\ bk[i].status = "APPROVED"})

user_has_booking_for_date_approved(bk, user_id, date_str) ==
  Cardinality({i \in DOMAIN bk :
                 /\ bk[i].user_id = user_id
                 /\ bk[i].date = date_str
                 /\ bk[i].status = "APPROVED"}) > 0

user_has_booking_for_date(bk, user_id, date_str) ==
  Cardinality({i \in DOMAIN bk :
                 /\ bk[i].user_id = user_id
                 /\ bk[i].date = date_str
                 /\ bk[i].status # "REJECTED"}) > 0

\* rows n, n-1, ..., 1 of the user as (id, date, status).  created_at is the
\* UTC clock reading at the insert, so it grows with the row id
RECURSIVE get_user_bookings_upto(_, _, _)
get_user_bookings_upto(bk, user_id, n) ==
  IF n = 0 THEN <<>>
  ELSE (IF bk[n].user_id = user_id
        THEN << <<n, bk[n].date, bk[n].status>> >> ELSE <<>>)
       \o get_user_bookings_upto(bk, user_id, n - 1)

get_user_bookings_oldest_first(bk, user_id) ==
  LET rows == get_user_bookings_upto(bk, user_id, Len(bk))
  IN [i \in DOMAIN rows |-> rows[Len(rows) + 1 - i]]

\* SELECT id, date, status ... WHERE user_id = ? ORDER BY created_at DESC
get_user_bookings(bk, user_id) == get_user_bookings_upto(bk, user_id, Len(bk))

get_booking(bk, booking_id) ==
  IF booking_id \in DOMAIN bk THEN booking_id ELSE None

DateIsFull_gt(bk, date_str) == count_approved_for_date(bk, date_str) > PerDayCapacity

DateIsFull(bk, date_str) == count_approved_for_date(bk, date_str) >= PerDayCapacity

\* -------------------------------------------------------------- calendar
\* a day is its proleptic Gregorian ordinal (date.toordinal())
is_leap(y) == y % 4 = 0 /\ (y % 100 # 0 \/ y % 400 = 0)

days_in_month(y, m) ==
  IF m = 2 THEN (IF is_leap(y) THEN 29 ELSE 28)
  ELSE IF m \in {4, 6, 9, 11} THEN 30 ELSE 31

days_before_year(y) ==
  (y - 1) * 365 + (y - 1) \div 4 - (y - 1) \div 100 + (y - 1) \div 400

RECURSIVE days_before_month(_, _)
days_before_month(y, m) ==
  IF m = 1 THEN 0 ELSE days_before_month(y, m - 1) + days_in_month(y, m - 1)

ymd2ord(y, m, d) == days_before_year(y) + days_before_month(y, m) + d

\* date.weekday(): Monday is 0
weekday(dt) == (dt + 6) % 7

is_allowed_weekday_with_friday(dt) == weekday(dt) \in {6, 0, 1, 2, 3, 4}

is_allowed_weekday(dt) == weekday(dt) \in {6, 0, 1, 2, 3}

MinLeadDays == 2

\* the loop of next_n_sunthu: d is the day looked at last, dates the list so far
RECURSIVE next_n_sunthu_loop(_, _, _, _)
next_n_sunthu_loop(day, d, dates, n) ==
  IF Len(dates) >= n THEN dates
  ELSE LET e == d + 1
       IN next_n_sunthu_loop(day, e,
            IF e >= day + MinLeadDays /\ is_allowed_weekday(e)
            THEN Append(dates, e) ELSE dates, n)

next_n_sunthu_every_day(day, n) == [i \in 1..n |-> day + i]

\* next_n_sunthu(n) when datetime.utcnow().date() is day
next_n_sunthu(day, n) == next_n_sunthu_loop(day, day, <<>>, n)

OfferedCount == 10

\* the clock when the bot starts (2026-11-06 is a Friday), the dates a
\* requester picks (the first buttons of a keyboard) and the date that is
\* nearly full
Today0 == ymd2ord(2026, 11, 6)
DateInputs == {next_n_sunthu(Today0, OfferedCount)[i] : i \in 1..MaxDates}
SeedDate == CHOOSE d \in DateInputs : \A e \in DateInputs : d <= e

\* ------------------------------------------------------------ bookkeeping
EmptyUserData == [file_count |-> None, received_files |-> <<>>, chosen_date |-> None]

NoLast == [op |-> "none", by |-> None, action |-> "none", booking |-> None,
           date |-> None, before |-> "none", text |-> NoText, reply |-> "none",
           raised |-> FALSE, attempted |-> {}, failed |-> {}, count |-> 0,
           rows |-> <<>>, lost |-> {}]

Msg(to, kind, booking, by, reason) ==
  [to |-> to, kind |-> kind, booking |-> booking, by |-> by, reason |-> reason]

\* one message per configured admin, in ADMIN_IDS order
ToAdmins(kind, booking, by, reason) ==
  [i \in DOMAIN ADMIN_IDS |-> Msg(ADMIN_IDS[i], kind, booking, by, reason)]

Seeded(n) ==
  [i \in 1..n |-> [user_id |-> 100 + i, date |-> SeedDate, status |-> "APPROVED"]]

SeededFiles(n) == [i \in 1..n |-> [booking_id |-> i, file_id |-> "f1"]]

\* the database already holds SeedCount approved bookings of other users
\* for SeedDate; no booking exists for the other dates
Init ==
  /\ bookings = Seeded(SeedCount)
  /\ booking_files = SeededFiles(SeedCount)
  /\ admin_messages = {}
  /\ pending_rejections = [a \in Admins |-> None]
  /\ conv = [u \in Requesters |-> END]
  /\ user_data = [u \in Requesters |-> EmptyUserData]
  /\ keyboards = {}
  /\ inflight = EmptyBag
  /\ presses = 0
  /\ faults = 0
  /\ outbox = <<>>
  /\ last = NoLast
  /\ today = Today0
  /\ date_keyboards = {}
  /\ offered = [u \in Requesters |-> <<>>]

NewBookings == Cardinality({i \in DOMAIN bookings : bookings[i].user_id \in Requesters})
ActiveSessions == Cardinality({u \in Requesters : conv[u] # END})

\* ------------------------------------------------------------ intake
user_data_clear_kept(ud, u) == ud

\* context.user_data.clear()
user_data_clear(ud, u) == [ud EXCEPT ![u] = EmptyUserData]

schedule_start(u) ==
  /\ conv[u] = END
  /\ NewBookings + ActiveSessions < MaxNewBookings
  /\ ActiveSessions < MaxSessions
  /\ user_data' = user_data_clear(user_data, u)
  /\ conv' = [conv EXCEPT ![u] = ASK_FILE_COUNT]
  /\ outbox' = <<>>
  /\ last' = [NoLast EXCEPT !.op = "schedule_start", !.by = u, !.reply = "askFileCount"]
  /\ UNCHANGED <<bookings, booking_files, admin_messages, pending_rejections,
                 keyboards, inflight, presses, faults>>
  /\ UNCHANGED <<today, date_keyboards, offered>>

receive_file_count(u, text) ==
  /\ conv[u] = ASK_FILE_COUNT
  /\ LET count == int(strip(text))
     IN IF count < 1
        THEN /\ last' = [NoLast EXCEPT !.op = "receive_file_count", !.by = u,
                                       !.text = text, !.reply = "numbersOnly"]
             /\ UNCHANGED <<conv, user_data, date_keyboards, offered>>
        ELSE /\ user_data' = [user_data EXCEPT ![u].file_count = count,
                                               ![u].received_files = <<>>]
             /\ date_keyboards' =
                  date_keyboards \cup {<<u, next_n_sunthu(today, OfferedCount)>>}
             /\ offered' = [offered EXCEPT ![u] = next_n_sunthu(today, OfferedCount)]
             /\ conv' = [conv EXCEPT ![u] = ASK_DATE]
             /\ last' = [NoLast EXCEPT !.op = "receive_file_count", !.by = u,
                                       !.text = text, !.reply = "chooseDate"]
  /\ outbox' = <<>>
  /\ UNCHANGED <<bookings, booking_files, admin_messages, pending_rejections,
                 keyboards, inflight, presses, faults, today>>

\* the requester presses the button date_str of the date keyboard kb; every
\* branch edits that message, which takes its keyboard away
receive_date_callback(u, date_str, kb) ==
  /\ kb \in date_keyboards
  /\ kb[1] = u
  /\ \E i \in DOMAIN kb[2] : kb[2][i] = date_str
  /\ conv[u] = ASK_DATE
  /\ date_keyboards' = date_keyboards \ {kb}
  /\ IF user_has_booking_for_date(bookings, u, date_str)
     THEN /\ conv' = [conv EXCEPT ![u] = END]
          /\ last' = [NoLast EXCEPT !.op = "receive_date_callback", !.by = u,
                                    !.date = date_str,
                                    !.reply = "alreadyBooked"]
          /\ UNCHANGED user_data
     ELSE IF DateIsFull(bookings, date_str)
     THEN /\ conv' = [conv EXCEPT ![u] = END]
          /\ last' = [NoLast EXCEPT !.op = "receive_date_callback", !.by = u,
                                    !.date = date_str, !.reply = "dateFull"]
          /\ UNCHANGED user_data
     ELSE /\ user_data' = [user_data EXCEPT ![u].chosen_date = date_str]
          /\ conv' = [conv EXCEPT ![u] = ASK_DOC]
          /\ last' = [NoLast EXCEPT !.op = "receive_date_callback", !.by = u,
                                    !.date = date_str, !.reply = "uploadFiles"]
  /\ outbox' = <<>>
  /\ UNCHANGED <<bookings, booking_files, admin_messages, pending_rejections,
                 keyboards, inflight, presses, faults, today, offered>>

\* the admins, in ADMIN_IDS order, whose prompt was delivered
RECURSIVE PromptsSent(_, _, _)
PromptsSent(i, booking_id, undelivered) ==
  IF i > Len(ADMIN_IDS) THEN <<>>
  ELSE (IF ADMIN_IDS[i] \in undelivered THEN <<>>
        ELSE <<Msg(ADMIN_IDS[i], "prompt", booking_id, None, NoText)>>)
       \o PromptsSent(i + 1, booking_id, undelivered)

RECURSIVE save_admin_messages(_, _, _)
save_admin_messages(am, booking_id, delivered) ==
  IF delivered = {} THEN am
  ELSE LET a == CHOOSE x \in delivered : TRUE
       IN save_admin_messages(save_admin_message(am, booking_id, a, booking_id),
                              booking_id, delivered \ {a})

\* undelivered: the admins for whom send_message raised (logged, skipped)
receive_file(u, file, undelivered) ==
  /\ conv[u] = ASK_DOC
  /\ IF user_data[u].chosen_date = None
     THEN /\ conv' = [conv EXCEPT ![u] = END]
          /\ outbox' = <<>>
          /\ last' = [NoLast EXCEPT !.op = "receive_file", !.by = u,
                                    !.reply = "dateMissing"]
          /\ undelivered = {}
          /\ UNCHANGED <<bookings, booking_files, admin_messages, user_data,
                         keyboards, faults>>
     ELSE LET received == Append(user_data[u].received_files, file)
              remaining == user_data[u].file_count - Len(received)
              booking_id == Len(bookings) + 1
              delivered == Admins \ undelivered
          IN /\ user_data' = [user_data EXCEPT ![u].received_files = received]
             /\ IF remaining > 0
                THEN /\ undelivered = {}
                     /\ outbox' = <<>>
                     /\ last' = [NoLast EXCEPT !.op = "receive_file", !.by = u,
                                               !.reply = "sendMore"]
                     /\ UNCHANGED <<bookings, booking_files, admin_messages,
                                    conv, keyboards, faults>>
                ELSE /\ faults + Cardinality(undelivered) <= MaxFaults
                     /\ faults' = faults + Cardinality(undelivered)
                     /\ bookings' = create_booking(bookings, u,
                                                   user_data[u].chosen_date)
                     /\ booking_files' =
                          add_booking_files(booking_files, booking_id, received)
                     /\ admin_messages' =
                          save_admin_messages(admin_messages, booking_id, delivered)
                     /\ keyboards' =
                          keyboards \cup {<<a, booking_id>> : a \in delivered}
                     /\ outbox' = PromptsSent(1, booking_id, undelivered)
                     /\ conv' = [conv EXCEPT ![u] = END]
                     /\ last' = [NoLast EXCEPT !.op = "receive_file", !.by = u,
                                               !.booking = booking_id,
                                               !.reply = "awaitingApproval"]
  /\ UNCHANGED <<pending_rejections, inflight, presses>>
  /\ UNCHANGED <<today, date_keyboards, offered>>

cancel_handler(u) ==
  /\ IF conv[u] # END THEN TRUE ELSE u \notin Admins
  /\ user_data' = user_data_clear(user_data, u)
  /\ conv' = [conv EXCEPT ![u] = END]
  /\ outbox' = <<>>
  /\ last' = [NoLast EXCEPT !.op = "cancel_handler", !.by = u,
                            !.before = conv[u], !.reply = "canceled"]
  /\ UNCHANGED <<bookings, booking_files, admin_messages, pending_rejections,
                 keyboards, inflight, presses, faults>>
  /\ UNCHANGED <<today, date_keyboards, offered>>

\* ------------------------------------------------------------ approval
Callback(a, action, booking_id) ==
  [admin |-> a, action |-> action, booking |-> booking_id]

\* an admin presses Approve or Reject on a keyboard that is still shown
Press(a, action, booking_id) ==
  /\ <<a, booking_id>> \in keyboards
  /\ presses < MaxPresses
  /\ presses' = presses + 1
  /\ inflight' = inflight (+) SetToBag({Callback(a, action, booking_id)})
  /\ UNCHANGED <<bookings, booking_files, admin_messages, pending_rejections,
                 conv, user_data, keyboards, faults, outbox, last>>
  /\ UNCHANGED <<today, date_keyboards, offered>>

approve_status_always(full) == "APPROVED"

\* the status the approve branch writes
approve_status(full) == IF full THEN "REJECTED" ELSE "APPROVED"

record_pending_dropped(pr, a, booking_id) == pr

record_pending_first(pr, a, booking_id) ==
  IF pr[a] = None THEN [pr EXCEPT ![a] = booking_id] ELSE pr

\* pending_rejections[admin.id] = booking_id
record_pending(pr, a, booking_id) == [pr EXCEPT ![a] = booking_id]

pop_pending_kept(pr, a) == pr

\* pending_rejections.pop(admin.id)
pop_pending(pr, a) == [pr EXCEPT ![a] = None]

\* the first k messages are sent; the k+1-st send raises when k < Len(msgs)
Delivered(msgs, k) == SubSeq(msgs, 1, k)

\* failed: the prompts whose edit_message_reply_markup raised (ignored)
admin_approve_reject(a, action, booking_id, failed, k) ==
  /\ BagIn(Callback(a, action, booking_id), inflight)
  /\ inflight' = inflight (-) SetToBag({Callback(a, action, booking_id)})
  /\ IF get_booking(bookings, booking_id) = None
     THEN /\ failed = {} /\ k = 0
          /\ outbox' = <<>>
          /\ last' = [NoLast EXCEPT !.op = "decide", !.by = a, !.action = action,
                                    !.booking = booking_id, !.reply = "notFound"]
          /\ UNCHANGED <<bookings, admin_messages, pending_rejections, keyboards,
                         faults>>
     ELSE LET user_id == bookings[booking_id].user_id
              date_str == bookings[booking_id].date
              status == bookings[booking_id].status
              admin_msgs == get_admin_messages(admin_messages, booking_id)
              full == DateIsFull(bookings, date_str)
              msgs == IF action = "approve"
                      THEN IF full
                           THEN ToAdmins("autoRejectedFull", booking_id, None, NoText)
                                \o <<Msg(user_id, "autoRejectedFull", booking_id,
                                         None, NoText)>>
                           ELSE ToAdmins("approved", booking_id, a, NoText)
                                \o <<Msg(user_id, "approved", booking_id, a, NoText)>>
                      ELSE <<Msg(a, "reasonPrompt", booking_id, a, NoText)>>
              raised == k < Len(msgs)
              reply == IF raised THEN "none"
                       ELSE IF action # "approve" THEN "awaitingReason"
                       ELSE IF full THEN "autoRejectedFull" ELSE "approved"
          IN /\ failed \subseteq admin_msgs
             /\ k \in 0..Len(msgs)
             /\ faults + Cardinality(failed) + (IF raised THEN 1 ELSE 0) <= MaxFaults
             /\ faults' = faults + Cardinality(failed) + (IF raised THEN 1 ELSE 0)
             /\ admin_messages' = clear_admin_messages(admin_messages, booking_id)
             /\ keyboards' =
                  (keyboards \ {<<r.admin_id, r.booking_id>> : r \in admin_msgs \ failed})
                  \ (IF raised THEN {} ELSE {<<a, booking_id>>})
             /\ IF action = "approve"
                THEN /\ bookings' = set_booking_status(bookings, booking_id,
                                                       approve_status(full))
                     /\ UNCHANGED pending_rejections
                ELSE /\ pending_rejections' =
                          record_pending(pending_rejections, a, booking_id)
                     /\ UNCHANGED bookings
             /\ outbox' = Delivered(msgs, k)
             /\ last' = [op |-> "decide", by |-> a, action |-> action,
                         booking |-> booking_id, date |-> date_str,
                         before |-> status,
                         text |-> NoText, reply |-> reply, raised |-> raised,
                         attempted |-> admin_msgs, failed |-> failed,
                         count |-> 0, rows |-> <<>>, lost |-> {}]
  /\ UNCHANGED <<booking_files, conv, user_data, presses>>
  /\ UNCHANGED <<today, date_keyboards, offered>>

\* a text message is taken by the conversation handler, registered first,
\* when its sender is in the file-count step
TextTakenByConversation(a) ==
  IF a \in Requesters THEN conv[a] = ASK_FILE_COUNT ELSE FALSE

pending_target_any(pr, a) ==
  IF pr[a] # None THEN pr[a]
  ELSE IF \E x \in DOMAIN pr : pr[x] # None
       THEN pr[CHOOSE x \in DOMAIN pr : pr[x] # None]
       ELSE None

\* the booking admin_rejection_reason_handler works on: None when the admin
\* is not in pending_rejections
pending_target(pr, a) == pr[a]

admin_rejection_reason_handler(a, text, k) ==
  /\ ~TextTakenByConversation(a)
  /\ LET booking_id == pending_target(pending_rejections, a)
         reason == strip(text)
     IN IF booking_id = None
        THEN /\ k = 0
             /\ outbox' = <<>>
             /\ last' = [NoLast EXCEPT !.op = "submitReason", !.by = a]
             /\ UNCHANGED <<bookings, pending_rejections, faults>>
        ELSE IF reason = <<>>
        THEN /\ k = 0
             /\ outbox' = <<>>
             /\ last' = [NoLast EXCEPT !.op = "submitReason", !.by = a,
                                       !.booking = booking_id, !.text = text,
                                       !.before = bookings[booking_id].status,
                                       !.reply = "nonEmptyPlease"]
             /\ UNCHANGED <<bookings, pending_rejections, faults>>
        ELSE IF get_booking(bookings, booking_id) = None
        THEN /\ k = 0
             /\ pending_rejections' = pop_pending(pending_rejections, a)
             /\ outbox' = <<>>
             /\ last' = [NoLast EXCEPT !.op = "submitReason", !.by = a,
                                       !.booking = booking_id, !.text = text,
                                       !.reply = "notFound"]
             /\ UNCHANGED <<bookings, faults>>
        ELSE LET user_id == bookings[booking_id].user_id
                 msgs == ToAdmins("rejected", booking_id, a, reason)
                         \o <<Msg(user_id, "rejected", booking_id, a, reason)>>
                 raised == k < Len(msgs)
             IN /\ k \in 0..Len(msgs)
                /\ faults + (IF raised THEN 1 ELSE 0) <= MaxFaults
                /\ faults' = faults + (IF raised THEN 1 ELSE 0)
                /\ pending_rejections' = pop_pending(pending_rejections, a)
                /\ bookings' = set_booking_status(bookings, booking_id, "REJECTED")
                /\ outbox' = Delivered(msgs, k)
                /\ last' = [op |-> "submitReason", by |-> a, action |-> "none",
                            booking |-> booking_id,
                            date |-> bookings[booking_id].date,
                            before |-> bookings[booking_id].status,
                            text |-> text,
                            reply |-> IF raised THEN "none" ELSE "rejectedDone",
                            raised |-> raised, attempted |-> {}, failed |-> {},
                            count |-> 0, rows |-> <<>>, lost |-> {}]
  /\ UNCHANGED <<booking_files, admin_messages, conv, user_data, keyboards,
                 inflight, presses>>
  /\ UNCHANGED <<today, date_keyboards, offered>>

\* /mybookings reaches mybookings_handler from every conversation state, but
\* only for a user who is not an admin: an admin's commands are taken by
\* admin_rejection_reason_handler, which is registered before it.
mybookings_handler(u) ==
  /\ u \notin Admins
  /\ LET rows == get_user_bookings(bookings, u)
     IN last' = [NoLast EXCEPT !.op = "mybookings", !.by = u, !.rows = rows,
                               !.reply = IF rows = <<>> THEN "noBookings"
                                         ELSE "yourBookings"]
  /\ outbox' = <<>>
  /\ UNCHANGED <<bookings, booking_files, admin_messages, pending_rejections,
                 conv, user_data, keyboards, inflight, presses, faults, today,
                 date_keyboards, offered>>

\* An update that no registered handler takes: the handler of the user's
\* conversation state and the fallbacks do not match it (allow_reentry is
\* off, so /schedule is no entry point while a session exists; without a
\* session only /schedule is), and neither does any handler registered after
\* the ConversationHandler.  A text or command of an admin is taken by
\* admin_rejection_reason_handler instead.  "date" is a press on a date
\* keyboard that is still shown.
UpdateKinds == {"/schedule", "text", "file", "date"}

unhandled_update(u, kind) ==
  /\ kind \in {"/schedule", "text"} => u \notin Admins
  /\ kind = "/schedule" => conv[u] # END
  /\ kind = "text" => conv[u] # ASK_FILE_COUNT
  /\ kind = "file" => conv[u] # ASK_DOC
  /\ kind = "date" => conv[u] # ASK_DATE /\ \E kb \in date_keyboards : kb[1] = u
  /\ outbox' = <<>>
  /\ last' = [NoLast EXCEPT !.op = "unhandled", !.by = u, !.action = kind,
                            !.before = conv[u]]
  /\ UNCHANGED <<bookings, booking_files, admin_messages, pending_rejections,
                 conv, user_data, keyboards, inflight, presses, faults>>
  /\ UNCHANGED <<today, date_keyboards, offered>>

Actions == {"approve", "reject"}

\* a requester uploads different files one after the other: the file sent
\* when j files of the session were received already
FileOrder == <<"f1", "f2">>
NextUpload(u) ==
  LET j == Len(user_data[u].received_files) + 1
  IN FileOrder[IF j <= Len(FileOrder) THEN j ELSE Len(FileOrder)]
SendPoints == 0..(Len(ADMIN_IDS) + 1)

Next ==
  \/ \E u \in Requesters : schedule_start(u)
  \/ \E u \in Requesters, text \in Texts : receive_file_count(u, text)
  \/ \E kb \in date_keyboards, i \in 1..MaxDates :
       receive_date_callback(kb[1], kb[2][i], kb)
  \/ \E u \in Requesters, f \in FileInputs, undelivered \in SUBSET Admins :
       f = NextUpload(u) /\ receive_file(u, f, undelivered)
  \/ \E u \in Requesters : cancel_handler(u)
  \/ \E u \in Requesters, kind \in UpdateKinds : unhandled_update(u, kind)
  \/ \E u \in Requesters : mybookings_handler(u)
  \/ \E kb \in keyboards, action \in Actions : Press(kb[1], action, kb[2])
  \/ \E cb \in BagToSet(inflight), k \in SendPoints :
       \E failed \in SUBSET get_admin_messages(admin_messages, cb.booking) :
         admin_approve_reject(cb.admin, cb.action, cb.booking, failed, k)
  \/ \E a \in Admins, text \in Texts, k \in SendPoints :
       admin_rejection_reason_handler(a, text, k)

Spec == Init /\ [][Next]_vars

\* ------------------------------------------------- persistence failures
\* admin_approve_reject when set_booking_status raises (sqlite3 error) in the
\* approve branch: the prompts were retracted and the ledger rows deleted
\* before, the exception ends the handler before any notification.
admin_approve_reject_store_failure(a, booking_id, failed) ==
  /\ BagIn(Callback(a, "approve", booking_id), inflight)
  /\ get_booking(bookings, booking_id) # None
  /\ inflight' = inflight (-) SetToBag({Callback(a, "approve", booking_id)})
  /\ LET admin_msgs == get_admin_messages(admin_messages, booking_id)
     IN /\ failed \subseteq admin_msgs
        /\ faults + Cardinality(failed) + 1 <= MaxFaults
        /\ faults' = faults + Cardinality(failed) + 1
        /\ keyboards' =
             keyboards \ {<<r.admin_id, r.booking_id>> : r \in admin_msgs \ failed}
        /\ admin_messages' = clear_admin_messages(admin_messages, booking_id)
        /\ last' = [NoLast EXCEPT !.op = "decide", !.by = a, !.action = "approve",
                                  !.booking = booking_id,
                                  !.date = bookings[booking_id].date,
                                  !.before = bookings[booking_id].status,
                                  !.reply = "storeFailed",
                                  !.attempted = admin_msgs, !.failed = failed]
  /\ outbox' = <<>>
  /\ UNCHANGED <<bookings, booking_files, pending_rejections, conv, user_data,
                 presses>>
  /\ UNCHANGED <<today, date_keyboards, offered>>

\* receive_file on the last file of a session when a table write raises:
\* written = -1 when create_booking raised, else the number of
\* add_booking_file rows committed before add_booking_file raised.  The
\* exception ends the handler, so the conversation stays in its step.
receive_file_store_failure(u, file, written) ==
  /\ conv[u] = ASK_DOC
  /\ user_data[u].chosen_date # None
  /\ LET received == Append(user_data[u].received_files, file)
         booking_id == Len(bookings) + 1
     IN /\ user_data[u].file_count - Len(received) <= 0
        /\ written \in -1..(Len(received) - 1)
        /\ faults + 1 <= MaxFaults
        /\ faults' = faults + 1
        /\ user_data' = [user_data EXCEPT ![u].received_files = received]
        /\ IF written < 0
           THEN UNCHANGED <<bookings, booking_files>>
           ELSE /\ bookings' = create_booking(bookings, u, user_data[u].chosen_date)
                /\ booking_files' =
                     add_booking_files(booking_files, booking_id,
                                       SubSeq(received, 1, written))
        /\ last' = [NoLast EXCEPT !.op = "receive_file", !.by = u,
                                  !.booking = IF written < 0 THEN None
                                              ELSE booking_id,
                                  !.reply = "storeFailed"]
  /\ outbox' = <<>>
  /\ UNCHANGED <<admin_messages, pending_rejections, conv, keyboards, inflight,
                 presses>>
  /\ UNCHANGED <<today, date_keyboards, offered>>

StoreNext ==
  \/ Next
  \/ \E cb \in BagToSet(inflight) :
       \E failed \in SUBSET get_admin_messages(admin_messages, cb.booking) :
         admin_approve_reject_store_failure(cb.admin, cb.booking, failed)
  \/ \E u \in Requesters, f \in FileInputs, written \in -1..(Len(FileOrder) - 1) :
       f = NextUpload(u) /\ receive_file_store_failure(u, f, written)

SpecStore == Init /\ [][StoreNext]_vars

\* intake when requesters also declare two files, no admin acting
NextFiles ==
  \/ \E u \in Requesters : schedule_start(u)
  \/ \E u \in Requesters, text \in CountTexts : receive_file_count(u, text)
  \/ \E kb \in date_keyboards, i \in 1..MaxDates :
       receive_date_callback(kb[1], kb[2][i], kb)
  \/ \E u \in Requesters, f \in FileInputs, undelivered \in SUBSET Admins :
       f = NextUpload(u) /\ receive_file(u, f, undelivered)
  \/ \E u \in Requesters : cancel_handler(u)
  \/ \E u \in Requesters, kind \in UpdateKinds : unhandled_update(u, kind)

SpecFiles == Init /\ [][NextFiles]_vars

\* -------------------------------------------------------------- restart
\* The bot process is stopped and started again.  The Application is built
\* without persistence, so the conversation states and user_data are gone,
\* and pending_rejections is a module-level dict; the tables, the messages in
\* the chats and the updates Telegram has not delivered yet survive.
restart ==
  /\ \/ \E u \in Requesters : conv[u] # END
     \/ \E a \in Admins : pending_rejections[a] # None
  /\ conv' = [u \in Requesters |-> END]
  /\ user_data' = [u \in Requesters |-> EmptyUserData]
  /\ pending_rejections' = [a \in Admins |-> None]
  /\ outbox' = <<>>
  /\ last' = [NoLast EXCEPT !.op = "restart",
                            !.lost = {u \in Requesters : conv[u] # END}]
  /\ UNCHANGED <<bookings, booking_files, admin_messages, keyboards, inflight,
                 presses, faults, today, date_keyboards, offered>>

RestartNext ==
  \/ Next
  \/ restart

SpecRestart == Init /\ [][RestartNext]_vars

\* ---------------------------------------------------------------- clock
\* midnight UTC passes: datetime.utcnow().date() is the next day
MaxTicks == 1

tick ==
  /\ today - Today0 < MaxTicks
  /\ today' = today + 1
  /\ UNCHANGED <<bookings, booking_files, admin_messages, pending_rejections,
                 conv, user_data, keyboards, inflight, presses, faults, outbox,
                 last, date_keyboards, offered>>

\* intake over several days, no admin acting
CalendarNext ==
  \/ \E u \in Requesters : schedule_start(u)
  \/ \E u \in Requesters, text \in Texts : receive_file_count(u, text)
  \/ \E kb \in date_keyboards, i \in 1..MaxDates :
       receive_date_callback(kb[1], kb[2][i], kb)
  \/ \E u \in Requesters, f \in FileInputs, undelivered \in SUBSET Admins :
       f = NextUpload(u) /\ receive_file(u, f, undelivered)
  \/ \E u \in Requesters : cancel_handler(u)
  \/ tick

SpecCalendar == Init /\ [][CalendarNext]_vars

\* ------------------------------------------------------- the date offer
\* next_n_sunthu on its own: every clock reading of two weeks and every
\* count up to the one receive_file_count asks for
CountInputs == 0..OfferedCount
ClockInputs == {Today0 + i : i \in 0..13}

SunThuInit ==
  /\ bookings = Seeded(SeedCount)
  /\ booking_files = SeededFiles(SeedCount)
  /\ admin_messages = {}
  /\ pending_rejections = [a \in Admins |-> None]
  /\ conv = [u \in Requesters |-> END]
  /\ user_data = [u \in Requesters |-> EmptyUserData]
  /\ keyboards = {}
  /\ inflight = EmptyBag
  /\ presses = 0
  /\ faults = 0
  /\ outbox = <<>>
  /\ last = NoLast
  /\ today \in ClockInputs
  /\ date_keyboards = {}
  /\ offered = [u \in Requesters |-> <<>>]

call_next_n_sunthu(n) ==
  /\ last' = [NoLast EXCEPT !.op = "next_n_sunthu", !.date = today,
                            !.count = n, !.rows = next_n_sunthu(today, n)]
  /\ UNCHANGED <<bookings, booking_files, admin_messages, pending_rejections,
                 conv, user_data, keyboards, inflight, presses, faults, outbox,
                 today, date_keyboards, offered>>

SunThuNext == \E n \in CountInputs : call_next_n_sunthu(n)

SpecSunThu == SunThuInit /\ [][SunThuNext]_vars

\* ================================================================
\* The typed-date, multi-admin variant
\* (src/telegram_scheduler_bot_multiadmin.py).  It shares the tables and the
\* keyboard/callback mechanics above; it has no booking_files table and no
\* pending_rejections map, and a date is the proleptic ordinal of the day.

\* --------------------------------------------------------- date handling
RECURSIVE split(_, _)
split(s, sep) ==
  IF \A i \in DOMAIN s : s[i] # sep THEN <<s>>
  ELSE LET i == CHOOSE i \in DOMAIN s :
                  s[i] = sep /\ \A j \in 1..(i - 1) : s[j] # sep
       IN <<SubSeq(s, 1, i - 1)>> \o split(SubSeq(s, i + 1, Len(s)), sep)

\* the %Y, %m and %d fields of strptime: the value, or -1 when the field
\* does not match the directive
year_field(f) == IF Len(f) = 4 THEN int(f) ELSE -1

month_field(f) ==
  IF Len(f) \in {1, 2} /\ int(f) \in 1..12 THEN int(f) ELSE -1

day_field(f) ==
  IF Len(f) \in {1, 2} /\ int(f) \in 1..31 THEN int(f)
  ELSE IF Len(f) = 2 /\ f[1] = " " /\ int(Tail(f)) \in 1..9 THEN int(Tail(f))
  ELSE -1

\* datetime.strptime(text.strip(), '%Y-%m-%d'): the day, or None
parse_date(text) ==
  LET f == split(strip(text), "-")
  IN IF Len(f) # 3 THEN None
     ELSE LET y == year_field(f[1])
              m == month_field(f[2])
              d == day_field(f[3])
          IN IF y < 1 \/ m < 1 \/ d < 1 THEN None
             ELSE IF d > days_in_month(y, m) THEN None
             ELSE ymd2ord(y, m, d)

\* ---------------------------------------------------------------- inputs
Users == Requesters \cup Admins

\* 2026-11-08 is a Sunday, 2026-11-06 a Friday, 2026-11-05 a Thursday
DateTexts ==
  { <<"2", "0", "2", "6", "-", "1", "1", "-", "0", "8">>,
    <<" ", "2", "0", "2", "6", "-", "1", "1", "-", "8", " ">>,
    <<"2", "0", "2", "6", "-", "1", "1", "-", "0", "6">>,
    <<"2", "0", "2", "6", "-", "1", "1", "-", "0", "5">>,
    <<"2", "0", "2", "6", "-", "0", "2", "-", "3", "0">>,
    <<"0", "8", "-", "1", "1", "-", "2", "0", "2", "6">> }

\* datetime.utcnow().date() while the bot runs
TodayInputs == {ymd2ord(2026, 11, 4), ymd2ord(2026, 11, 7)}

MultiSeedDate == ymd2ord(2026, 11, 8)

add_booking(bk, user_id, date_str) ==
  Append(bk, [user_id |-> user_id, date |-> date_str, status |-> "PENDING"])

count_bookings_for_date(bk, date_str) ==
  Cardinality({i \in DOMAIN bk :
                 bk[i].date = date_str /\ bk[i].status = "APPROVED"})

\* context.user_data of one user in this variant
EmptyContext ==
  [chosen_date |-> None, reject_booking_id |-> None, reject_user_id |-> None,
   reject_date |-> None, reject_admin_name |-> None]

MultiSeeded(n) ==
  [i \in 1..n |-> [user_id |-> 100 + i, date |-> MultiSeedDate,
                   status |-> "APPROVED"]]

\* the database already holds SeedCount approved bookings for MultiSeedDate
MultiInit ==
  /\ bookings = MultiSeeded(SeedCount)
  /\ booking_files = <<>>
  /\ admin_messages = {}
  /\ pending_rejections = [a \in Admins |-> None]
  /\ conv = [u \in Requesters |-> END]
  /\ user_data = [u \in Users |-> EmptyContext]
  /\ keyboards = {}
  /\ inflight = EmptyBag
  /\ presses = 0
  /\ faults = 0
  /\ outbox = <<>>
  /\ last = NoLast
  /\ today \in TodayInputs
  /\ date_keyboards = {}
  /\ offered = [u \in Requesters |-> <<>>]

\* ------------------------------------------------------------ intake
multi_schedule_start(u) ==
  /\ conv[u] = END
  /\ NewBookings + ActiveSessions < MaxNewBookings
  /\ ActiveSessions < MaxSessions
  /\ conv' = [conv EXCEPT ![u] = ASK_DATE]
  /\ outbox' = <<>>
  /\ last' = [NoLast EXCEPT !.op = "schedule_start", !.by = u, !.reply = "askDate"]
  /\ UNCHANGED <<bookings, booking_files, admin_messages, pending_rejections,
                 user_data, keyboards, inflight, presses, faults>>
  /\ UNCHANGED <<today, date_keyboards, offered>>

receive_date(u, text) ==
  /\ conv[u] = ASK_DATE
  /\ LET dt == parse_date(text)
         min_allowed == today + MinLeadDays
         reply == IF dt = None THEN "invalidFormat"
                  ELSE IF dt < min_allowed THEN "tooSoon"
                  ELSE IF ~is_allowed_weekday(dt) THEN "weekdayNotAllowed"
                  ELSE IF count_bookings_for_date(bookings, dt) >= PerDayCapacity
                  THEN "dateFull"
                  ELSE "uploadDocument"
     IN /\ IF reply = "uploadDocument"
           THEN /\ user_data' = [user_data EXCEPT ![u].chosen_date = dt]
                /\ conv' = [conv EXCEPT ![u] = ASK_DOC]
           ELSE UNCHANGED <<user_data, conv>>
        /\ last' = [NoLast EXCEPT !.op = "receive_date", !.by = u, !.text = text,
                                  !.reply = reply]
  /\ outbox' = <<>>
  /\ UNCHANGED <<bookings, booking_files, admin_messages, pending_rejections,
                 keyboards, inflight, presses, faults>>
  /\ UNCHANGED <<today, date_keyboards, offered>>

\* undelivered: the admins for whom send_document raised (logged, skipped)
receive_document(u, file, undelivered) ==
  /\ conv[u] = ASK_DOC
  /\ IF user_data[u].chosen_date = None
     THEN /\ undelivered = {}
          /\ outbox' = <<>>
          /\ last' = [NoLast EXCEPT !.op = "receive_document", !.by = u,
                                    !.reply = "dateMissing"]
          /\ UNCHANGED <<bookings, admin_messages, keyboards, faults>>
     ELSE LET booking_id == Len(bookings) + 1
              delivered == Admins \ undelivered
          IN /\ faults + Cardinality(undelivered) <= MaxFaults
             /\ faults' = faults + Cardinality(undelivered)
             /\ bookings' = add_booking(bookings, u, user_data[u].chosen_date)
             /\ admin_messages' =
                  save_admin_messages(admin_messages, booking_id, delivered)
             /\ keyboards' = keyboards \cup {<<a, booking_id>> : a \in delivered}
             /\ outbox' = PromptsSent(1, booking_id, undelivered)
             /\ last' = [NoLast EXCEPT !.op = "receive_document", !.by = u,
                                       !.booking = booking_id,
                                       !.reply = "awaitingApproval"]
  /\ conv' = [conv EXCEPT ![u] = END]
  /\ UNCHANGED <<booking_files, pending_rejections, user_data, inflight, presses>>
  /\ UNCHANGED <<today, date_keyboards, offered>>

cancel(u) ==
  /\ conv[u] # END
  /\ conv' = [conv EXCEPT ![u] = END]
  /\ outbox' = <<>>
  /\ last' = [NoLast EXCEPT !.op = "cancel", !.by = u, !.reply = "canceled"]
  /\ UNCHANGED <<bookings, booking_files, admin_messages, pending_rejections,
                 user_data, keyboards, inflight, presses, faults>>
  /\ UNCHANGED <<today, date_keyboards, offered>>

\* ------------------------------------------------------------ approval
\* failed: the prompts whose edit_message_reply_markup raised (ignored).
\* The handler is registered outside the ConversationHandler, so the
\* ASK_REASON it returns on reject changes no conversation state.
approve_reject_callback(a, action, booking_id, failed, k) ==
  /\ BagIn(Callback(a, action, booking_id), inflight)
  /\ inflight' = inflight (-) SetToBag({Callback(a, action, booking_id)})
  /\ IF get_booking(bookings, booking_id) = None
     THEN /\ failed = {} /\ k = 0
          /\ outbox' = <<>>
          /\ last' = [NoLast EXCEPT !.op = "decide", !.by = a, !.action = action,
                                    !.booking = booking_id, !.reply = "notFound"]
          /\ UNCHANGED <<bookings, user_data, keyboards, faults>>
     ELSE LET user_id == bookings[booking_id].user_id
              date_str == bookings[booking_id].date
              status == bookings[booking_id].status
              admin_msgs == get_admin_messages(admin_messages, booking_id)
              full == count_bookings_for_date(bookings, date_str) >= PerDayCapacity
              msgs == IF action = "approve"
                      THEN IF full
                           THEN ToAdmins("autoRejectedFull", booking_id, None, NoText)
                                \o <<Msg(user_id, "autoRejectedFull", booking_id,
                                         None, NoText)>>
                           ELSE ToAdmins("approved", booking_id, a, NoText)
                                \o <<Msg(user_id, "approved", booking_id, a, NoText)>>
                      ELSE <<Msg(a, "reasonPrompt", booking_id, a, NoText)>>
              raised == k < Len(msgs)
              reply == IF raised THEN "none"
                       ELSE IF action # "approve" THEN "awaitingReason"
                       ELSE IF full THEN "autoRejectedFull" ELSE "approved"
          IN /\ failed \subseteq admin_msgs
             /\ k \in 0..Len(msgs)
             /\ faults + Cardinality(failed) + (IF raised THEN 1 ELSE 0) <= MaxFaults
             /\ faults' = faults + Cardinality(failed) + (IF raised THEN 1 ELSE 0)
             /\ keyboards' =
                  keyboards \ {<<r.admin_id, r.booking_id>> : r \in admin_msgs \ failed}
             /\ IF action = "approve"
                THEN /\ bookings' = set_booking_status(bookings, booking_id,
                                                       approve_status(full))
                     /\ UNCHANGED user_data
                ELSE /\ user_data' =
                          [user_data EXCEPT ![a].reject_booking_id = booking_id,
                                            ![a].reject_user_id = user_id,
                                            ![a].reject_date = date_str,
                                            ![a].reject_admin_name = a]
                     /\ UNCHANGED bookings
             /\ outbox' = Delivered(msgs, k)
             /\ last' = [op |-> "decide", by |-> a, action |-> action,
                         booking |-> booking_id, date |-> date_str,
                         before |-> status,
                         text |-> NoText, reply |-> reply, raised |-> raised,
                         attempted |-> admin_msgs, failed |-> failed,
                         count |-> 0, rows |-> <<>>, lost |-> {}]
  /\ UNCHANGED <<booking_files, admin_messages, pending_rejections, conv, presses>>
  /\ UNCHANGED <<today, date_keyboards, offered>>

\* A text message that no handler of this variant takes.  The value ASK_REASON
\* returned by approve_reject_callback is discarded, because that handler is
\* registered next to the ConversationHandler and not as one of its states:
\* no conversation is ever in ASK_REASON and receive_rejection_reason never
\* runs.  A text is taken (by receive_date) only in the date step.
multi_unhandled_text(u, text) ==
  /\ IF u \in Requesters THEN conv[u] # ASK_DATE ELSE TRUE
  /\ outbox' = <<>>
  /\ last' = [NoLast EXCEPT !.op = "unhandled", !.by = u, !.action = "text",
                            !.text = text]
  /\ UNCHANGED <<bookings, booking_files, admin_messages, pending_rejections,
                 conv, user_data, keyboards, inflight, presses, faults, today,
                 date_keyboards, offered>>

MultiNext ==
  \/ \E u \in Requesters : multi_schedule_start(u)
  \/ \E u \in Requesters, text \in DateTexts : receive_date(u, text)
  \/ \E u \in Requesters, f \in FileInputs, undelivered \in SUBSET Admins :
       receive_document(u, f, undelivered)
  \/ \E u \in Requesters : cancel(u)
  \/ \E kb \in keyboards, action \in Actions : Press(kb[1], action, kb[2])
  \/ \E cb \in BagToSet(inflight), k \in SendPoints :
       \E failed \in SUBSET get_admin_messages(admin_messages, cb.booking) :
         approve_reject_callback(cb.admin, cb.action, cb.booking, failed, k)
  \/ \E u \in Users, text \in Texts : multi_unhandled_text(u, text)

SpecMulti == MultiInit /\ [][MultiNext]_vars

\* ================================================================ claims
\* a step in which the bot handled an update (not a keyboard press)
Handled == presses' = presses

StatusOf(b) == bookings[b].status

\* C1: once a booking is APPROVED or REJECTED, no later event changes its
\* status or its date.
C1_TerminalAbsorbing ==
  [][\A b \in DOMAIN bookings :
       StatusOf(b) \in Terminal =>
         /\ bookings'[b].status = bookings[b].status
         /\ bookings'[b].date = bookings[b].date]_vars

\* C2: of two decide calls on the same booking only the first is applied; a
\* decide that finds the booking already decided reports "already decided".
C2_SecondDecideAlreadyDecided ==
  (last.op = "decide" /\ last.before \in Terminal) => last.reply = "alreadyDecided"

\* C3: for every date, at most PerDayCapacity bookings are APPROVED.
C3_CapacityRespected ==
  \A d \in DateInputs : count_approved_for_date(bookings, d) <= PerDayCapacity

C3_Witness ==
  /\ count_approved_for_date(bookings, SeedDate) = PerDayCapacity
  /\ \E b \in DOMAIN bookings :
       /\ bookings[b].user_id \in Requesters
       /\ bookings[b].date = SeedDate
       /\ StatusOf(b) = "REJECTED"
       /\ last.booking = b /\ last.reply = "autoRejectedFull"

\* C4: while an approver's rejection reason is awaited for a booking, a decide
\* action of another approver does not change that booking's status.
C4_RejectReserves ==
  [][\A a \in Admins :
       (/\ pending_rejections[a] # None
        /\ Handled
        /\ last'.op = "decide"
        /\ last'.by # a
        /\ last'.booking = pending_rejections[a])
       => bookings'[pending_rejections[a]].status
            = bookings[pending_rejections[a]].status]_vars

\* C5: decide(approve) on a PENDING booking for date d makes it REJECTED,
\* reported as auto-rejected (full), when PerDayCapacity bookings are already
\* APPROVED for d, and APPROVED, reported as approved, otherwise.
C5_ApproveDecision ==
  [][(Handled /\ last'.op = "decide" /\ last'.action = "approve"
      /\ last'.before = "PENDING")
     => LET b == last'.booking
            kind == IF count_approved_for_date(bookings, bookings[b].date)
                         >= PerDayCapacity
                    THEN "autoRejectedFull" ELSE "approved"
        IN /\ bookings'[b].status =
                (IF kind = "approved" THEN "APPROVED" ELSE "REJECTED")
           /\ \A i \in DOMAIN outbox' : outbox'[i].kind = kind
           /\ ~last'.raised => last'.reply = kind]_vars

C5_Witness ==
  /\ last.op = "decide" /\ last.action = "approve" /\ last.before = "PENDING"
  /\ ~last.raised /\ last.reply = "autoRejectedFull"
  /\ StatusOf(last.booking) = "REJECTED"
  /\ Len(outbox) = Len(ADMIN_IDS) + 1

\* C6: decide(reject) on a PENDING booking leaves it PENDING, maps the acting
\* approver to the booking in pending_rejections, and answers "awaiting reason".
C6_RejectDefers ==
  (last.op = "decide" /\ last.action = "reject" /\ last.before = "PENDING")
  => /\ StatusOf(last.booking) = "PENDING"
     /\ pending_rejections[last.by] = last.booking
     /\ ~last.raised => last.reply = "awaitingReason"

C6_Witness ==
  /\ last.op = "decide" /\ last.action = "reject" /\ last.before = "PENDING"
  /\ last.reply = "awaitingReason"
  /\ pending_rejections[last.by] = last.booking

Blank(t) == \A i \in DOMAIN t : t[i] = " "

\* r is t without its leading and trailing spaces
IsTrimOf(r, t) ==
  \E i \in 1..Len(t) : \E j \in i..Len(t) :
    /\ r = SubSeq(t, i, j)
    /\ t[i] # " " /\ t[j] # " "
    /\ \A n \in 1..Len(t) : (n < i \/ n > j) => t[n] = " "

C8_LedgerClearedOnDecision ==
  [][\A b \in DOMAIN bookings :
       (/\ StatusOf(b) = "PENDING"
        /\ bookings'[b].status \in Terminal
        /\ last'.op = "decide")
       => /\ get_admin_messages(admin_messages', b) = {}
          /\ last'.attempted = get_admin_messages(admin_messages, b)
          /\ \A r \in last'.attempted \ last'.failed :
               <<r.admin_id, b>> \notin keyboards']_vars

\* C9: a reject by an approver replaces that approver's pending entry (last
\* write wins), and the next reason the approver submits changes the status of
\* the booking the entry names and of no other booking.
C9_LastRejectWins ==
  [][/\ (Handled /\ last'.op = "decide" /\ last'.action = "reject"
         /\ last'.reply # "notFound")
        => /\ pending_rejections'[last'.by] = last'.booking
           /\ \A a \in Admins \ {last'.by} :
                pending_rejections'[a] = pending_rejections[a]
     /\ (Handled /\ last'.op = "submitReason")
        => \A b \in DOMAIN bookings :
             bookings'[b] # bookings[b]
               => /\ b = pending_rejections[last'.by]
                  /\ bookings'[b].status = "REJECTED"]_vars

C9_Witness ==
  /\ faults = 0
  /\ last.op = "submitReason" /\ last.reply = "rejectedDone"
  /\ StatusOf(last.booking) = "REJECTED"
  /\ \E b1 \in DOMAIN bookings :
       /\ b1 < last.booking
       /\ StatusOf(b1) = "PENDING"
       /\ get_admin_messages(admin_messages, b1) = {}
       /\ \A a \in Admins : pending_rejections[a] # b1

\* C10: a reason text from an approver without a pending entry changes no
\* booking, not the pending map and not the ledger, and sends nothing.
C10_NoPendingNoEffect ==
  [][(Handled /\ last'.op = "submitReason"
      /\ pending_rejections[last'.by] = None)
     => /\ UNCHANGED <<bookings, pending_rejections, admin_messages>>
        /\ outbox' = <<>>]_vars

C10_Witness ==
  /\ last.op = "submitReason" /\ last.booking = None
  /\ \E a \in Admins \ {last.by} :
       /\ pending_rejections[a] # None
       /\ StatusOf(pending_rejections[a]) = "PENDING"
\* C11: in the date step, selecting a day on which the requester already
\* holds a non-REJECTED booking, or a day with PerDayCapacity APPROVED
\* bookings, is refused: the session ends, the draft gets no date and no
\* booking is created.
C11_DateRefusedEndsSession ==
  [][\A u \in Requesters :
       (/\ Handled
        /\ conv[u] = ASK_DATE
        /\ last'.op = "receive_date_callback"
        /\ last'.by = u
        /\ \/ \E i \in DOMAIN bookings :
                /\ bookings[i].user_id = u
                /\ bookings[i].date = last'.date
                /\ bookings[i].status # "REJECTED"
           \/ Cardinality({i \in DOMAIN bookings :
                             /\ bookings[i].date = last'.date
                             /\ bookings[i].status = "APPROVED"}) >= PerDayCapacity)
       => /\ last'.reply \in {"alreadyBooked", "dateFull"}
          /\ conv'[u] = END
          /\ user_data'[u] = user_data[u]
          /\ bookings' = bookings
          /\ booking_files' = booking_files]_vars

C11_Witness ==
  /\ last.op = "receive_date_callback"
  /\ last.reply = "alreadyBooked"
  /\ conv[last.by] = END
  /\ \E i \in DOMAIN bookings :
       /\ bookings[i].user_id = last.by
       /\ bookings[i].date = last.date
       /\ bookings[i].status = "PENDING"

\* the file ids of a booking's attachment records, in table order
FileIdsOf(bf, booking_id) ==
  LET rows == get_booking_files(bf, booking_id)
  IN [i \in DOMAIN rows |-> rows[i].file_id]

\* C12: with declared file count n, an attachment that is not yet the n-th
\* keeps the session in the attachment step with one file fewer remaining
\* and creates no booking; the n-th attachment creates exactly one PENDING
\* booking whose attachment records are the n received files in the order
\* received, and ends the session.
C12_FilesCounted ==
  [][\A u \in Requesters :
       (/\ Handled
        /\ conv[u] = ASK_DOC
        /\ user_data[u].chosen_date # None
        /\ last'.op = "receive_file"
        /\ last'.by = u)
       => LET n == user_data[u].file_count
              received == Append(user_data[u].received_files, NextUpload(u))
          IN /\ user_data'[u].received_files = received
             /\ user_data'[u].file_count = n
             /\ IF Len(received) < n
                THEN /\ conv'[u] = ASK_DOC
                     /\ last'.reply = "sendMore"
                     /\ bookings' = bookings
                     /\ booking_files' = booking_files
                ELSE /\ conv'[u] = END
                     /\ Len(bookings') = Len(bookings) + 1
                     /\ \A i \in DOMAIN bookings : bookings'[i] = bookings[i]
                     /\ bookings'[Len(bookings')] =
                          [user_id |-> u, date |-> user_data[u].chosen_date,
                           status |-> "PENDING"]
                     /\ FileIdsOf(booking_files', Len(bookings')) = received
                     /\ \A i \in DOMAIN bookings :
                          FileIdsOf(booking_files', i) = FileIdsOf(booking_files, i)]_vars

C12_Witness ==
  /\ last.op = "receive_file"
  /\ last.reply = "awaitingApproval"
  /\ conv[last.by] = END
  /\ user_data[last.by].file_count = 2
  /\ bookings[last.booking].status = "PENDING"
  /\ FileIdsOf(booking_files, last.booking) = <<"f1", "f2">>

\* C13: cancel is accepted in every intake state; it ends the session,
\* discards the draft, creates no booking and leaves every booking, the
\* attachment records and the approval ledger unchanged.
C13_CancelAlways ==
  /\ [](\A u \in Requesters : conv[u] # END => ENABLED cancel_handler(u))
  /\ [][\A u \in Requesters :
          (/\ Handled
           /\ conv[u] # END
           /\ last'.op = "cancel_handler"
           /\ last'.by = u)
          => /\ conv'[u] = END
             /\ user_data'[u] = [file_count |-> None, received_files |-> <<>>,
                                 chosen_date |-> None]
             /\ bookings' = bookings
             /\ booking_files' = booking_files
             /\ admin_messages' = admin_messages
             /\ pending_rejections' = pending_rejections]_vars

C13_Witness ==
  /\ last.op = "cancel_handler"
  /\ last.before = ASK_DOC
  /\ conv[last.by] = END
  /\ \E i \in DOMAIN bookings :
       /\ bookings[i].status = "PENDING"
       /\ get_admin_messages(admin_messages, i) # {}

\* C14: the start command always yields a fresh session in the first step
\* with an empty draft, also when the requester is in the middle of a
\* session.
C14_StartAlwaysFresh ==
  \A u \in Requesters :
    (/\ last.by = u
     /\ \/ last.op = "schedule_start"
        \/ last.op = "unhandled" /\ last.action = "/schedule")
    => /\ conv[u] = ASK_FILE_COUNT
       /\ user_data[u] = [file_count |-> None, received_files |-> <<>>,
                          chosen_date |-> None]

\* C15: in every intake state an input of another category than the one
\* the state accepts (a text where a date or a file is expected, a file
\* where a text is expected, a file count that is no positive number) is
\* answered with a re-prompt and leaves the session's step and draft as
\* they were.
C15_WrongInputReprompts ==
  [][\A u \in Requesters :
       (/\ Handled
        /\ conv[u] # END
        /\ last'.by = u
        /\ \/ last'.op = "unhandled" /\ last'.action \in {"text", "file"}
           \/ last'.op = "receive_file_count" /\ int(strip(last'.text)) < 1)
       => /\ last'.reply \in {"numbersOnly", "chooseDate", "uploadFiles", "sendMore"}
          /\ conv'[u] = conv[u]
          /\ user_data'[u] = user_data[u]]_vars

\* the ledger entries of a booking for one approver
PromptsOf(am, booking_id, a) ==
  {r \in am : r.booking_id = booking_id /\ r.admin_id = a}

\* C16 as stated: when intake completes, the new booking is PENDING and the
\* ledger holds exactly one prompt of it for each configured approver.
C16_OnePromptPerApprover ==
  (last.op = "receive_file" /\ last.reply = "awaitingApproval")
  => /\ bookings[last.booking].status = "PENDING"
     /\ \A a \in Admins :
          Cardinality(PromptsOf(admin_messages, last.booking, a)) = 1

\* C16 amended: when intake completes, exactly one booking is created, with
\* status PENDING, and the ledger gets one prompt of it for each configured
\* approver whose prompt was sent, none for an approver whose send raised,
\* and no other ledger entry changes.
C16_OnePromptPerDelivered ==
  [][(/\ Handled
      /\ last'.op = "receive_file"
      /\ last'.reply = "awaitingApproval")
     => LET b == last'.booking
        IN /\ b = Len(bookings) + 1
           /\ Len(bookings') = Len(bookings) + 1
           /\ \A i \in DOMAIN bookings : bookings'[i] = bookings[i]
           /\ bookings'[b].status = "PENDING"
           /\ bookings'[b].user_id = last'.by
           /\ \A a \in Admins :
                Cardinality(PromptsOf(admin_messages', b, a)) =
                  IF \E i \in DOMAIN outbox' :
                       /\ outbox'[i].to = a
                       /\ outbox'[i].kind = "prompt"
                       /\ outbox'[i].booking = b
                  THEN 1 ELSE 0
           /\ \A r \in admin_messages' : r.booking_id = b \/ r \in admin_messages
           /\ admin_messages \subseteq admin_messages']_vars

C16_Witness ==
  /\ last.op = "receive_file"
  /\ last.reply = "awaitingApproval"
  /\ bookings[last.booking].status = "PENDING"
  /\ Cardinality(get_admin_messages(admin_messages, last.booking)) = 1
  /\ Len(outbox) = 1

\* the last handler wrote a decision (APPROVED or REJECTED) for last.booking
DecisionWritten ==
  \/ last.op = "decide" /\ last.action = "approve" /\ last.before # "none"
  \/ last.op = "submitReason" /\ last.reply \in {"none", "rejectedDone"}
                              /\ last.before # "none"

Notified(to) == \E i \in DOMAIN outbox : outbox[i].to = to

\* C17: every transition of a booking out of PENDING is followed by a
\* decision notification to the requester and to every configured approver,
\* naming the acting approver for approve and reject; and a booking that
\* was decided already gets no notifications of a further decision.
C17_DecisionNotifiedOnce ==
  DecisionWritten
  => /\ last.before = "PENDING"
          => /\ Notified(bookings[last.booking].user_id)
             /\ \A a \in Admins : Notified(a)
             /\ \A i \in DOMAIN outbox :
                  outbox[i].kind \in {"approved", "rejected"}
                    => outbox[i].by = last.by
     /\ last.before \in Terminal => outbox = <<>>

\* C18: a notification that fails to be delivered during a decision does
\* not undo the decision: the booking has the status the handler wrote
\* (approve: REJECTED when the date was full, else APPROVED; reason
\* submitted: REJECTED), however many notifications were sent before the
\* failure.
C18_SendFailureKeepsStatus ==
  [][(Handled /\ last'.raised /\ last'.booking \in DOMAIN bookings)
     => LET b == last'.booking
        IN /\ last'.op = "decide" /\ last'.action = "approve"
                => bookings'[b].status =
                     (IF count_approved_for_date(bookings, bookings[b].date)
                          >= PerDayCapacity
                      THEN "REJECTED" ELSE "APPROVED")
           /\ last'.op = "submitReason" => bookings'[b].status = "REJECTED"
           /\ \A i \in DOMAIN bookings \ {b} : bookings'[i] = bookings[i]]_vars

C18_Witness ==
  /\ last.op = "decide" /\ last.action = "approve" /\ last.before = "PENDING"
  /\ last.raised
  /\ Len(outbox) = 1
  /\ StatusOf(last.booking) = "APPROVED"

\* C19: when the status write fails during decide, the booking's status,
\* the approval prompts still shown and the ledger entries are what they
\* were before the call.
C19_StoreFailureLeavesDecisionRetryable ==
  [][(Handled /\ last'.op = "decide" /\ last'.reply = "storeFailed")
     => /\ bookings' = bookings
        /\ admin_messages' = admin_messages
        /\ keyboards' = keyboards]_vars

\* C20: when a table write fails while intake completion stores the booking
\* and its attachment records, the tables hold afterwards either the booking
\* with all its attachment records or neither the booking nor any record.
C20_StoreFailureLeavesNoPartialBooking ==
  [][\A u \in Requesters :
       (/\ Handled
        /\ last'.op = "receive_file"
        /\ last'.by = u
        /\ last'.reply = "storeFailed")
       => \/ bookings' = bookings /\ booking_files' = booking_files
          \/ /\ Len(bookings') = Len(bookings) + 1
             /\ FileIdsOf(booking_files', Len(bookings')) =
                  user_data'[u].received_files]_vars

\* C21: next_n_sunthu called with count n returns exactly n days, in strictly
\* increasing order, each a Sunday to Thursday and each on or after the
\* clock's day + 2.
C21_OfferedDaysEligible ==
  last.op = "next_n_sunthu" =>
    /\ Len(last.rows) = last.count
    /\ \A i \in DOMAIN last.rows :
         /\ (last.rows[i] + 6) % 7 \in {6, 0, 1, 2, 3}
         /\ last.rows[i] >= last.date + 2
         /\ i > 1 => last.rows[i - 1] < last.rows[i]

\* a Thursday's offer of ten days starts on the Sunday and spans two weeks
C21_Witness ==
  /\ last.op = "next_n_sunthu"
  /\ (last.date + 6) % 7 = 3
  /\ last.count = 10
  /\ last.rows[1] = last.date + 3
  /\ last.rows[10] = last.date + 14

\* C22: in the multi-admin variant, when an admin who pressed reject on a
\* booking sends a text message with the reason, the booking becomes REJECTED
\* and the requester is sent a rejection notice naming the admin and the reason.
C22_ReasonRejects ==
  [][\A a \in Admins :
       LET b == user_data[a].reject_booking_id
       IN (/\ Handled
           /\ b # None
           /\ last'.by = a
           /\ last'.text # NoText
           /\ last'.op \in {"unhandled", "receive_date"})
          => /\ bookings'[b].status = "REJECTED"
             /\ \E i \in DOMAIN outbox' :
                  /\ outbox'[i].to = bookings[b].user_id
                  /\ outbox'[i].kind = "rejected"
                  /\ outbox'[i].by = a
                  /\ outbox'[i].reason = last'.text]_vars

\* C23: when a restart lost a requester's intake session, the requester's next
\* intake input (a text, a date selection or an attachment) is answered with a
\* message telling them to start again, and creates no booking.
C23_LostSessionVisible ==
  [][(/\ Handled
      /\ last.op = "restart"
      /\ last'.by \in last.lost
      /\ \/ last'.op = "unhandled" /\ last'.action \in {"text", "file", "date"}
         \/ last'.op \in {"receive_file_count", "receive_date_callback",
                           "receive_file", "submitReason"})
     => /\ last'.reply = "dateMissing"
        /\ bookings' = bookings]_vars

C25_DateStepAdmits ==
  [][(Handled /\ last'.op = "receive_date") =>
       LET u == last'.by
           dt == parse_date(last'.text)
           admitted ==
             /\ dt # None
             /\ dt >= today + 2
             /\ (dt + 6) % 7 \in {6, 0, 1, 2, 3}
             /\ Cardinality({i \in DOMAIN bookings :
                               /\ bookings[i].date = dt
                               /\ bookings[i].status = "APPROVED"}) < 10
       IN /\ conv[u] = ASK_DATE
          /\ bookings' = bookings
          /\ IF admitted
             THEN /\ conv'[u] = ASK_DOC
                  /\ user_data'[u].chosen_date = dt
             ELSE /\ conv'[u] = ASK_DATE
                  /\ user_data' = user_data]_vars

\* a Sunday far enough ahead is refused because ten bookings are approved for it
C25_Witness ==
  /\ last.op = "receive_date"
  /\ last.reply = "dateFull"
  /\ parse_date(last.text) = MultiSeedDate
  /\ conv[last.by] = ASK_DATE
  /\ user_data[last.by].chosen_date = None

\* C26: when every prompt was delivered, each PENDING booking still has an
\* entry in admin_messages or is the booking some admin owes a rejection
\* reason for.
C26_NoPendingStranded ==
  faults = 0 =>
    \A b \in DOMAIN bookings :
      bookings[b].status = "PENDING" =>
        \/ \E r \in admin_messages : r.booking_id = b
        \/ \E a \in Admins : pending_rejections[a] = b

\* C27: no requester has two bookings of the same date that are both PENDING
\* or APPROVED.
C27_OneLiveBookingPerDate ==
  \A b, c \in DOMAIN bookings :
    (/\ b # c
     /\ bookings[b].user_id = bookings[c].user_id
     /\ bookings[b].date = bookings[c].date)
    => \/ bookings[b].status = "REJECTED"
       \/ bookings[c].status = "REJECTED"

\* C28: the date of every booking created by intake is one of the days
\* next_n_sunthu offered to the requester in that session (so a Sunday to
\* Thursday at least two days after the day of the offer).
C28_BookedDateWasOffered ==
  [][(Handled /\ last'.op = "receive_file" /\ last'.reply = "awaitingApproval") =>
       LET d == bookings'[last'.booking].date
           o == offered[last'.by]
       IN /\ \E i \in DOMAIN o : o[i] = d
          /\ (d + 6) % 7 \in {6, 0, 1, 2, 3}]_vars

\* C29: in the main variant every row of admin_messages belongs to a booking
\* whose status is PENDING.
C29_LedgerOnlyPending ==
  \A r \in admin_messages :
    /\ r.booking_id \in DOMAIN bookings
    /\ bookings[r.booking_id].status = "PENDING"

\* a booking with prompts was decided while another booking still has its rows
C29_Witness ==
  /\ last.op = "decide"
  /\ last.attempted # {}
  /\ bookings[last.booking].status \in Terminal
  /\ \E r \in admin_messages : r.booking_id # last.booking

\* C30: a reason that is empty after trimming, sent by an admin who owes a
\* rejection reason, is answered with a request for a non-empty reason; the
\* pending entry stays, no status changes and nobody is notified.
C30_BlankReasonKeepsPending ==
  [][(/\ Handled
      /\ last'.op = "submitReason"
      /\ pending_rejections[last'.by] # None
      /\ Blank(last'.text))
     => /\ last'.reply = "nonEmptyPlease"
        /\ pending_rejections' = pending_rejections
        /\ bookings' = bookings
        /\ outbox' = <<>>]_vars

C30_Witness ==
  /\ last.op = "submitReason"
  /\ last.reply = "nonEmptyPlease"
  /\ last.text = <<" ">>
  /\ pending_rejections[last.by] = last.booking
  /\ StatusOf(last.booking) = "PENDING"

====
